---- MODULE Spec2Model ----
(***************************************************************************)
(* A model of the rs-cinic-10 index crate: the synset hierarchy parser     *)
(* (index.rs, parse_synset_map), the per-split catalogue (index.rs,        *)
(* DatasetIndex) and the batch packer (images.rs, load_batch).             *)
(*                                                                         *)
(* Text is modelled as sequences of character codes (ASCII), so that       *)
(* trimming, prefix tests, splitting and byte-wise ordering are computed   *)
(* the way the Rust standard library computes them.                        *)
(***************************************************************************)
EXTENDS Integers, Sequences, FiniteSets, TLC

VARIABLES
    \* ---- parse_synset_map ----
    input,          \* the lines yielded by rdr.lines()
    pos,            \* number of lines consumed by the for loop
    object_class,   \* Option<ObjectClass>
    synset_stack,   \* Vec<(usize, String)>
    synset_map,     \* HashMap<String, SynsetNode>
    pstatus,        \* "idle" | "running" | "ok" | "err" | "panic"
    pcause,         \* why parsing ended
    \* ---- DatasetIndex ----
    ds_path,        \* DatasetIndex.ds_path
    items,          \* DatasetIndex.items
    oc_pos,         \* number of classes visited by the loop of load_index_from_dir
    dstatus,        \* "idle" | "loading" | "ok" | "err" | "panic"
    dcause,         \* why construction ended
    q_indices,      \* argument of the indices_to_* call the caller last made
    q_paths,        \* what indices_to_paths returned to it
    q_classes,      \* what indices_to_classes returned to it
    q_held,         \* whether the caller still holds these results
    \* ---- load_batch ----
    paths,          \* the image files behind the paths handed to load_batch
    bi,             \* number of images processed
    shape,          \* RgbImageBatch.shape
    data,           \* RgbImageBatch.data
    bstatus,        \* "idle" | "loading" | "ok" | "err" | "panic"
    bcause,         \* why loading ended
    \* ---- Cinic10Index::new_from_dir ----
    fs_root,        \* what the root path leads to on disk
    f_pc,           \* the step new_from_dir is at
    f_status,       \* "idle" | "running" | "ok" | "err" | "panic"
    f_cause,        \* why construction ended
    cinic,          \* the parts built so far, each an Option
    f_result,       \* the Cinic10Index the caller obtained, an Option
    \* ---- the default data path (lib.rs) ----
    static_path,    \* STATIC_DEFAULT_PATH, the Option behind the RwLock
    env_path,       \* env::var(CINIC10_PATH), an Option
    t_pc,           \* per thread: "idle", or "env" inside get_default_data_path
    t_result,       \* per thread: what its last get_default_data_path returned
    t_seen,         \* per thread: the argument of the set_default_data_path that had
                    \* last completed when that call took the read lock
    last_set,       \* the argument of the last completed set_default_data_path
    issued          \* the arguments ever given to set_default_data_path

parse_vars == <<input, pos, object_class, synset_stack, synset_map, pstatus, pcause>>
index_vars ==
    <<ds_path, items, oc_pos, dstatus, dcause, q_indices, q_paths, q_classes, q_held>>
batch_vars == <<paths, bi, shape, data, bstatus, bcause>>
facade_vars == <<fs_root, f_pc, f_status, f_cause, cinic, f_result>>
path_vars == <<static_path, env_path, t_pc, t_result, t_seen, last_set, issued>>
other_vars == <<facade_vars, path_vars>>
vars == <<parse_vars, index_vars, batch_vars, other_vars>>

(***************************************************************************)
(* Bounds of the model.                                                    *)
(***************************************************************************)
MaxLines == 4       \* longest hierarchy text, in lines
MaxBatch == 3       \* longest path sequence handed to load_batch
MaxQuery == 3       \* longest index sequence handed to indices_to_*
NumClasses == 3     \* how many classes, in declared order, a split holds
                    \* (ObjectClass::COUNT, 10 in the source)
SAMPLES_PER_CLASS == 1  \* the per-class sample count (9000 in the source)
NumThreads == 2     \* threads calling get/set_default_data_path

\* Option<T>: None is the empty sequence, Some(x) the one-element sequence
None == <<>>
Some(x) == <<x>>

(***************************************************************************)
(* str helpers (Rust std).                                                 *)
(***************************************************************************)
\* char::is_whitespace, on the ASCII range
is_whitespace(c) == c \in {9, 10, 11, 12, 13, 32}

RECURSIVE trim_start(_)
trim_start(s) ==
    IF s # <<>> /\ is_whitespace(Head(s)) THEN trim_start(Tail(s)) ELSE s

RECURSIVE trim_end(_)
trim_end(s) ==
    IF s # <<>> /\ is_whitespace(s[Len(s)])
    THEN trim_end(SubSeq(s, 1, Len(s) - 1))
    ELSE s

\* str::trim
trim(s) == trim_end(trim_start(s))

\* str::starts_with(char)
starts_with(s, c) == s # <<>> /\ Head(s) = c

RECURSIVE trim_start_matches(_, _)
trim_start_matches(s, c) ==
    IF starts_with(s, c) THEN trim_start_matches(Tail(s), c) ELSE s

\* str::find(char): the 0-based offset of the first match, or -1 for None
find(s, c) ==
    IF \E k \in 1..Len(s) : s[k] = c
    THEN (CHOOSE k \in 1..Len(s) : s[k] = c /\ \A j \in 1..(k - 1) : s[j] # c) - 1
    ELSE 0 - 1

\* str::split(char): always at least one piece
RECURSIVE split(_, _)
split(s, c) ==
    LET p == find(s, c)
    IN  IF p < 0 THEN <<s>>
        ELSE <<SubSeq(s, 1, p)>> \o split(SubSeq(s, p + 2, Len(s)), c)

\* byte-wise lexicographic order of two strings (Ord for str / OsStr)
RECURSIVE str_le(_, _)
str_le(a, b) ==
    IF a = <<>> THEN TRUE
    ELSE IF b = <<>> THEN FALSE
    ELSE IF Head(a) # Head(b) THEN Head(a) < Head(b)
    ELSE str_le(Tail(a), Tail(b))

(***************************************************************************)
(* ObjectClass (index.rs:41-68).                                           *)
(***************************************************************************)
\* ObjectClass::iter(): the variants in declared order
ObjectClassIter ==
    << "Airplane", "Automobile", "Bird", "Cat", "Deer",
       "Dog", "Frog", "Horse", "Ship", "Truck" >>

ObjectClass == { ObjectClassIter[k] : k \in 1..Len(ObjectClassIter) }

\* Display with serialize_all = "lowercase"
to_string(oc) ==
    CASE oc = "Airplane"   -> <<97, 105, 114, 112, 108, 97, 110, 101>>
      [] oc = "Automobile" -> <<97, 117, 116, 111, 109, 111, 98, 105, 108, 101>>
      [] oc = "Bird"       -> <<98, 105, 114, 100>>
      [] oc = "Cat"        -> <<99, 97, 116>>
      [] oc = "Deer"       -> <<100, 101, 101, 114>>
      [] oc = "Dog"        -> <<100, 111, 103>>
      [] oc = "Frog"       -> <<102, 114, 111, 103>>
      [] oc = "Horse"      -> <<104, 111, 114, 115, 101>>
      [] oc = "Ship"       -> <<115, 104, 105, 112>>
      [] oc = "Truck"      -> <<116, 114, 117, 99, 107>>

\* ObjectClass::from_str: an exact, case-sensitive match, or an error
from_str(s) ==
    IF \E oc \in ObjectClass : to_string(oc) = s
    THEN CHOOSE oc \in ObjectClass : to_string(oc) = s
    ELSE "Err"

(***************************************************************************)
(* parse_synset_map (index.rs:139-212).                                    *)
(***************************************************************************)
\* A line for which rdr.lines() yields Err (a failed read, invalid UTF-8)
IoError == <<0>>

\* The lines a hierarchy text is drawn from
LinePool ==
    { <<100, 111, 103>>,                                    \* "dog"
      <<99, 97, 116>>,                                      \* "cat"
      <<68, 111, 103>>,                                     \* "Dog"
      <<>>,                                                 \* ""
      <<32, 9>>,                                            \* " \t"
      <<45, 45, 110, 49, 58, 32, 97, 44, 32, 98>>,          \* "--n1: a, b"
      <<45, 45, 45, 45, 110, 50, 58>>,                      \* "----n2:"
      <<45, 45, 110, 50, 58, 32, 99>>,                      \* "--n2: c"
      <<32, 45, 45, 45, 45, 45, 45, 110, 49, 58, 101, 32>>, \* " ------n1:e "
      <<45, 45, 110, 52>>,                                  \* "--n4"
      IoError }

\* the while-let loop of index.rs:187-192: remove all nodes too deep to be
\* the parent
RECURSIVE PopStack_PopDeeperOnly(_, _)
PopStack_PopDeeperOnly(stack, depth) ==
    IF stack = <<>> THEN stack
    ELSE IF stack[Len(stack)][1] <= depth THEN stack
    ELSE PopStack_PopDeeperOnly(SubSeq(stack, 1, Len(stack) - 1), depth)

RECURSIVE PopStack(_, _)
PopStack(stack, depth) ==
    IF stack = <<>> THEN stack
    ELSE IF stack[Len(stack)][1] < depth THEN stack
    ELSE PopStack(SubSeq(stack, 1, Len(stack) - 1), depth)

\* HashMap::insert
insert(map, key, value) ==
    [k \in (DOMAIN map) \cup {key} |-> IF k = key THEN value ELSE map[k]]

\* index.rs:184: split(',').map(|s| s.trim().to_string()).collect()
parse_aliases(s) ==
    LET pieces == split(s, 44)
    IN  [k \in 1..Len(pieces) |-> trim(pieces[k])]

Failed_AlwaysErr(st, status, cause) == [st EXCEPT !.status = "err", !.cause = cause]

\* the ways the loop ends early: `?` returns Err, assert! and unwrap panic
Failed(st, status, cause) == [st EXCEPT !.status = status, !.cause = cause]

\* index.rs:165-208: a nested synset node line, object_class being Some
ParseNode_PushFirst(st, cur) ==
    LET line == trim_start_matches(cur, 45)
        depth == Len(cur) - Len(line)
        split_pos == find(line, 58)
        synset_id == SubSeq(line, 1, split_pos)
        aliases == parse_aliases(SubSeq(line, split_pos + 2, Len(line)))
        pushed == Append(PopStack(st.synset_stack, depth), <<depth, synset_id>>)
        node == [ synset_id |-> synset_id,
                  object_class |-> st.object_class[1],
                  synset_base_id |-> Some(pushed[Len(pushed)][2]),
                  aliases |-> aliases ]
    IN  IF split_pos < 0
        THEN Failed(st, "panic", "unwrap")
        ELSE [st EXCEPT
                !.synset_stack = pushed,
                !.synset_map = insert(st.synset_map, synset_id, node)]

ParseNode(st, cur) ==
    LET line == trim_start_matches(cur, 45)
        depth == Len(cur) - Len(line)
        split_pos == find(line, 58)
        synset_id == SubSeq(line, 1, split_pos)
        aliases == parse_aliases(SubSeq(line, split_pos + 2, Len(line)))
        popped == PopStack(st.synset_stack, depth)
        synset_base_id ==
            IF popped = <<>> THEN None ELSE Some(popped[Len(popped)][2])
        node == [ synset_id |-> synset_id,
                  object_class |-> st.object_class[1],
                  synset_base_id |-> synset_base_id,
                  aliases |-> aliases ]
    IN  IF split_pos < 0
        THEN Failed(st, "panic", "unwrap")
        ELSE [st EXCEPT
                !.synset_stack = Append(popped, <<depth, synset_id>>),
                !.synset_map = insert(st.synset_map, synset_id, node)]

\* one iteration of the for loop of index.rs:149-209
ParseLine_SkipOrphan(st, full_line) ==
    LET cur == trim(full_line)
    IN  IF full_line = IoError
        THEN Failed(st, "err", "io")
        ELSE IF ~starts_with(cur, 45)
        THEN IF from_str(cur) = "Err"
             THEN Failed(st, "err", "parse")
             ELSE [st EXCEPT !.object_class = Some(from_str(cur)),
                             !.synset_stack = <<>>]
        ELSE IF st.object_class = None
        THEN st
        ELSE ParseNode(st, cur)

ParseLine(st, full_line) ==
    LET cur == trim(full_line)
    IN  IF full_line = IoError
        THEN Failed(st, "err", "io")
        ELSE IF ~starts_with(cur, 45)
        THEN IF from_str(cur) = "Err"
             THEN Failed(st, "err", "parse")
             ELSE [st EXCEPT !.object_class = Some(from_str(cur)),
                             !.synset_stack = <<>>]
        ELSE IF st.object_class = None
        THEN Failed(st, "panic", "assert")
        ELSE ParseNode(st, cur)

\* index.rs:143-146: the locals before the loop
ParseStart ==
    [ object_class |-> None, synset_stack |-> <<>>, synset_map |-> <<>>,
      status |-> "running", cause |-> "" ]

PState ==
    [ object_class |-> object_class, synset_stack |-> synset_stack,
      synset_map |-> synset_map, status |-> pstatus, cause |-> pcause ]

SetPState(st) ==
    /\ object_class' = st.object_class
    /\ synset_stack' = st.synset_stack
    /\ synset_map' = st.synset_map
    /\ pstatus' = st.status
    /\ pcause' = st.cause

\* the for loop takes the next line
ParseStep ==
    /\ pstatus = "running"
    /\ pos < Len(input)
    /\ SetPState(ParseLine(PState, input[pos + 1]))
    /\ pos' = pos + 1
    /\ UNCHANGED <<input, index_vars, batch_vars, other_vars>>

\* index.rs:211: the lines are exhausted, Ok(synset_map)
ParseDone ==
    /\ pstatus = "running"
    /\ pos = Len(input)
    /\ pstatus' = "ok"
    /\ UNCHANGED <<input, pos, object_class, synset_stack, synset_map, pcause,
                   index_vars, batch_vars, other_vars>>

RECURSIVE SeqsUpTo(_, _)
SeqsUpTo(S, n) ==
    IF n = 0 THEN { <<>> }
    ELSE LET shorter == SeqsUpTo(S, n - 1)
         IN  shorter \cup { Append(s, x) : s \in shorter, x \in S }

IndexIdle ==
    /\ ds_path = <<>> /\ items = <<>> /\ oc_pos = 0
    /\ dstatus = "idle" /\ dcause = ""
    /\ q_indices = <<>> /\ q_paths = <<>> /\ q_classes = <<>> /\ q_held = FALSE

BatchIdle ==
    /\ paths = <<>> /\ bi = 0 /\ shape = <<>> /\ data = <<>>
    /\ bstatus = "idle" /\ bcause = ""

ParseIdle ==
    /\ input = <<>> /\ pos = 0 /\ object_class = None
    /\ synset_stack = <<>> /\ synset_map = <<>>
    /\ pstatus = "idle" /\ pcause = ""

FacadeIdle ==
    /\ fs_root = <<>> /\ f_pc = "idle" /\ f_status = "idle" /\ f_cause = ""
    /\ cinic = <<>> /\ f_result = None

PathIdle ==
    /\ static_path = None /\ env_path = None
    /\ t_pc = <<>> /\ t_result = <<>> /\ t_seen = <<>>
    /\ last_set = None /\ issued = {}

OthersIdle == FacadeIdle /\ PathIdle

InitParse ==
    /\ input \in SeqsUpTo(LinePool, MaxLines)
    /\ pos = 0
    /\ object_class = ParseStart.object_class
    /\ synset_stack = ParseStart.synset_stack
    /\ synset_map = ParseStart.synset_map
    /\ pstatus = ParseStart.status
    /\ pcause = ParseStart.cause
    /\ IndexIdle
    /\ BatchIdle
    /\ OthersIdle

NextParse == ParseStep \/ ParseDone

SpecParse == InitParse /\ [][NextParse]_vars

(***************************************************************************)
(* The hierarchy text as the claims read it.                               *)
(***************************************************************************)
\* a data line: after trimming, it starts with a dash
IsDataLine(l) == l # IoError /\ trim(l) # <<>> /\ trim(l)[1] = 45

\* a class-header line naming one of the ten labels
IsValidHeader(l) == l # IoError /\ ~IsDataLine(l) /\ from_str(trim(l)) \in ObjectClass

\* a blank line: empty or whitespace only
IsBlankLine(l) == l # IoError /\ \A k \in 1..Len(l) : is_whitespace(l[k])

\* the number of dashes a data line starts with
DashDepth(l) ==
    Cardinality({ k \in 1..Len(trim(l)) : \A j \in 1..k : trim(l)[j] = 45 })

\* the identifier of a data line: what stands between its dashes and its
\* first colon
LineId(l) ==
    LET c == trim(l)
        d == DashDepth(l)
        colon == CHOOSE k \in (d + 1)..Len(c) :
                    c[k] = 58 /\ \A j \in (d + 1)..(k - 1) : c[j] # 58
    IN  [k \in 1..(colon - d - 1) |-> c[d + k]]

SetMax(S) == CHOOSE x \in S : \A y \in S : y <= x

\* the data lines before line k that have a strictly smaller depth
ShallowerBefore(k) ==
    { j \in 1..(k - 1) : IsDataLine(input[j]) /\ DashDepth(input[j]) < DashDepth(input[k]) }

\* those of them with no class header between them and line k
ShallowerBeforeInSection(k) ==
    { j \in ShallowerBefore(k) : \A m \in (j + 1)..(k - 1) : IsDataLine(input[m]) }

\* line pos is a data line and the loop has just inserted its node
NodeJustInserted ==
    /\ pstatus \in {"running", "ok"}
    /\ pos >= 1
    /\ IsDataLine(input[pos])

ParentIsNearestOf(S) ==
    LET node == synset_map[LineId(input[pos])]
    IN  IF S = {}
        THEN node.synset_base_id = None
        ELSE node.synset_base_id = Some(LineId(input[SetMax(S)]))

\* C2 as stated: the parent recorded for a data line is the identifier of the
\* nearest preceding data line of strictly smaller depth, and None exactly
\* when there is no such line anywhere before it.
C2_ParentNearestShallowerAnywhere ==
    NodeJustInserted => ParentIsNearestOf(ShallowerBefore(pos))

\* C2 as amended: the parent recorded for a data line is the identifier of
\* the nearest preceding data line of strictly smaller depth that follows the
\* most recent class header, and None exactly when no data line between that
\* header and the line has a strictly smaller depth.
C2_ParentNearestShallowerInSection ==
    NodeJustInserted => ParentIsNearestOf(ShallowerBeforeInSection(pos))

\* an accepted text with two headers whose last line got a parent
C2_Witness ==
    /\ pstatus = "ok"
    /\ NodeJustInserted
    /\ synset_map[LineId(input[pos])].synset_base_id # None
    /\ Cardinality({ j \in 1..pos : IsValidHeader(input[j]) }) >= 2

\* some data line stands before every valid class header
OrphanDataLine ==
    \E k \in 1..Len(input) :
        /\ IsDataLine(input[k])
        /\ \A j \in 1..(k - 1) : ~IsValidHeader(input[j])

\* C9: a text in which a data line occurs before any class header is never
\* accepted: parsing does not end with a mapping, whatever follows the line.
C9_OrphanDataLineFails ==
    OrphanDataLine => pstatus # "ok"

\* parsing stopped at a first data line that other lines follow
C9_Witness ==
    /\ OrphanDataLine
    /\ pstatus = "panic" /\ pcause = "assert"
    /\ pos < Len(input)

RECURSIVE ParseAll(_, _)
ParseAll(st, lines) ==
    IF lines = <<>> THEN [st EXCEPT !.status = "ok"]
    ELSE LET next == ParseLine(st, Head(lines))
         IN  IF next.status # "running" THEN next ELSE ParseAll(next, Tail(lines))

\* parse_synset_map on a whole text
parse_synset_map(lines) == ParseAll(ParseStart, lines)

RECURSIVE WithoutBlankLines(_)
WithoutBlankLines(lines) ==
    IF lines = <<>> THEN <<>>
    ELSE IF IsBlankLine(Head(lines)) THEN WithoutBlankLines(Tail(lines))
    ELSE <<Head(lines)>> \o WithoutBlankLines(Tail(lines))

\* C10: blank lines are ignored: when the text without its blank lines is
\* accepted, the text itself is accepted with the same mapping.
C10_BlankLinesIgnored ==
    (pstatus \in {"ok", "err", "panic"}
        /\ parse_synset_map(WithoutBlankLines(input)).status = "ok")
    => (pstatus = "ok"
        /\ synset_map = parse_synset_map(WithoutBlankLines(input)).synset_map)

(***************************************************************************)
(* std::path.  A path is whether it starts at the root directory, and its  *)
(* normal components.                                                      *)
(***************************************************************************)
RECURSIVE non_empty(_)
non_empty(pieces) ==
    IF pieces = <<>> THEN <<>>
    ELSE IF Head(pieces) = <<>> THEN non_empty(Tail(pieces))
    ELSE <<Head(pieces)>> \o non_empty(Tail(pieces))

\* PathBuf::from(String): components are what stands between separators
path_from(s) == [abs |-> starts_with(s, 47), comps |-> non_empty(split(s, 47))]

RECURSIVE join_comps(_)
join_comps(comps) ==
    IF comps = <<>> THEN <<>>
    ELSE IF Len(comps) = 1 THEN comps[1]
    ELSE comps[1] \o <<47>> \o join_comps(Tail(comps))

\* Path::to_str: the path as text
to_str(p) == (IF p.abs THEN <<47>> ELSE <<>>) \o join_comps(p.comps)

\* Path::join (PathBuf::push): an absolute argument replaces the path
join(p, q) ==
    IF q.abs THEN q ELSE [abs |-> p.abs, comps |-> p.comps \o q.comps]

\* Path::file_name: the last component
file_name(p) == p.comps[Len(p.comps)]

\* Path::extension: what follows the last dot of the file name, None when
\* there is no dot or nothing stands before it
extension(p) ==
    LET name == file_name(p)
        dots == { k \in 1..Len(name) : name[k] = 46 }
    IN  IF dots = {} \/ SetMax(dots) = 1 THEN None
        ELSE Some(SubSeq(name, SetMax(dots) + 1, Len(name)))

RECURSIVE comps_le(_, _)
comps_le(a, b) ==
    IF a = <<>> THEN TRUE
    ELSE IF b = <<>> THEN FALSE
    ELSE IF Head(a) # Head(b) THEN str_le(Head(a), Head(b))
    ELSE comps_le(Tail(a), Tail(b))

\* Ord for Path: component by component, the root directory first
path_le(p, q) ==
    IF p.abs # q.abs THEN p.abs ELSE comps_le(p.comps, q.comps)

\* Vec::sort, by insertion
RECURSIVE insert_sorted(_, _)
insert_sorted(sorted, p) ==
    IF sorted = <<>> THEN <<p>>
    ELSE IF path_le(p, Head(sorted)) /\ p # Head(sorted) THEN <<p>> \o sorted
    ELSE <<Head(sorted)>> \o insert_sorted(Tail(sorted), p)

RECURSIVE sort(_)
sort(files) ==
    IF files = <<>> THEN <<>>
    ELSE insert_sorted(sort(SubSeq(files, 1, Len(files) - 1)), files[Len(files)])

(***************************************************************************)
(* list_pngs_sorted (index.rs:223-246).                                    *)
(***************************************************************************)
\* a directory entry that read_dir yields as Err
EntryError == <<0>>

\* what a class directory may hold
EntryPool ==
    { <<97, 46, 112, 110, 103>>,            \* "a.png"
      <<97, 45, 98, 46, 112, 110, 103>>,    \* "a-b.png"
      <<99, 46, 106, 112, 103>>,            \* "c.jpg"
      <<46, 112, 110, 103>>,                \* ".png"
      EntryError }

\* the orders in which read_dir may yield the entries of a directory
RECURSIVE Orders(_)
Orders(S) ==
    IF S = {} THEN { <<>> }
    ELSE UNION { { <<x>> \o o : o \in Orders(S \ {x}) } : x \in S }

Listings == UNION { Orders(S) : S \in SUBSET EntryPool }

\* index.rs:230-240: the filter_map closure and the map(PathBuf::from)
RECURSIVE filter_pngs(_, _)
filter_pngs(dir, entries) ==
    IF entries = <<>> THEN <<>>
    ELSE LET entry == Head(entries)
             path == join(dir, path_from(entry))
             rest == filter_pngs(dir, Tail(entries))
         IN  IF entry # EntryError /\ extension(path) = Some(<<112, 110, 103>>)
             THEN <<path_from(to_str(path))>> \o rest
             ELSE rest

list_pngs_sorted_NoSort(dir, entries) == filter_pngs(dir, entries)

list_pngs_sorted(dir, entries) == sort(filter_pngs(dir, entries))

(***************************************************************************)
(* DatasetIndex (index.rs:248-349).                                        *)
(***************************************************************************)
SAMPLES_PER_DATASET == SAMPLES_PER_CLASS * NumClasses

\* the split directories a catalogue is built from: "/d/test" and "d/test"
SplitRoots ==
    { [abs |-> a, comps |-> << <<100>>, <<116, 101, 115, 116>> >>] : a \in BOOLEAN }

\* index.rs:265: assert_eq!(di.len(), SAMPLES_PER_DATASET)
len_assert_AtMost(n) == n <= SAMPLES_PER_DATASET

len_assert(n) == n = SAMPLES_PER_DATASET

\* index.rs:261: map(|p| (oc, p))
tag(oc, files) == [k \in 1..Len(files) |-> <<oc, files[k]>>]

\* index.rs:260-261: one iteration of the loop over ObjectClass::iter();
\* read_dir fails for a missing or unreadable directory
ScanClass ==
    /\ dstatus = "loading"
    /\ oc_pos < NumClasses
    /\ LET oc == ObjectClassIter[oc_pos + 1]
           oc_path == join(ds_path, path_from(to_string(oc)))
       IN  \/ /\ dstatus' = "err"
              /\ dcause' = "dir"
              /\ UNCHANGED <<items, oc_pos>>
           \/ \E entries \in Listings :
              /\ items' = items \o tag(oc, list_pngs_sorted(oc_path, entries))
              /\ oc_pos' = oc_pos + 1
              /\ UNCHANGED <<dstatus, dcause>>
    /\ UNCHANGED <<ds_path, q_indices, q_paths, q_classes, q_held, parse_vars, batch_vars, other_vars>>

\* index.rs:264-267: the length check after the loop
FinishLoad ==
    /\ dstatus = "loading"
    /\ oc_pos = NumClasses
    /\ IF len_assert(Len(items))
       THEN dstatus' = "ok" /\ dcause' = dcause
       ELSE dstatus' = "panic" /\ dcause' = "count"
    /\ UNCHANGED <<ds_path, items, oc_pos, q_indices, q_paths, q_classes, q_held,
                   parse_vars, batch_vars, other_vars>>

\* index.rs:284-289
index_to_class(index) == items[index + 1][1]

\* index.rs:308-314
index_to_path(index) ==
    LET oc == items[index + 1][1]
        fname == items[index + 1][2]
    IN  join(join(ds_path, path_from(to_string(oc))), fname)

\* index.rs:292-297: indices.iter().map(..).collect()
RECURSIVE indices_to_classes(_)
indices_to_classes(indices) ==
    IF indices = <<>> THEN <<>>
    ELSE <<index_to_class(Head(indices))>> \o indices_to_classes(Tail(indices))

RECURSIVE indices_to_paths_Reversed(_)
indices_to_paths_Reversed(indices) ==
    IF indices = <<>> THEN <<>>
    ELSE indices_to_paths_Reversed(Tail(indices)) \o <<index_to_path(Head(indices))>>

\* index.rs:325-330
RECURSIVE indices_to_paths(_)
indices_to_paths(indices) ==
    IF indices = <<>> THEN <<>>
    ELSE <<index_to_path(Head(indices))>> \o indices_to_paths(Tail(indices))

\* a caller asks for the paths and the classes of a sequence of in-range
\* indices (an index out of range panics in the caller and is not modelled)
Query ==
    /\ dstatus = "ok"
    /\ ~q_held
    /\ q_held' = TRUE
    /\ \E indices \in SeqsUpTo(0..(Len(items) - 1), MaxQuery) :
        /\ q_indices' = indices
        /\ q_paths' = indices_to_paths(indices)
        /\ q_classes' = indices_to_classes(indices)
    /\ UNCHANGED <<ds_path, items, oc_pos, dstatus, dcause, parse_vars, batch_vars, other_vars>>

\* the caller drops the vectors it was given; the catalogue is untouched
DropResult ==
    /\ q_held
    /\ q_held' = FALSE
    /\ q_indices' = <<>> /\ q_paths' = <<>> /\ q_classes' = <<>>
    /\ UNCHANGED <<ds_path, items, oc_pos, dstatus, dcause, parse_vars, batch_vars, other_vars>>

InitIndex ==
    /\ ds_path \in SplitRoots
    /\ items = <<>>
    /\ oc_pos = 0
    /\ dstatus = "loading"
    /\ dcause = ""
    /\ q_indices = <<>> /\ q_paths = <<>> /\ q_classes = <<>> /\ q_held = FALSE
    /\ ParseIdle
    /\ BatchIdle
    /\ OthersIdle

NextIndex == ScanClass \/ FinishLoad \/ Query \/ DropResult

SpecIndex == InitIndex /\ [][NextIndex]_vars

(***************************************************************************)
(* The catalogue as the claims read it.                                    *)
(***************************************************************************)
\* the place of a class in the declared order
ClassRank(oc) == CHOOSE k \in 1..Len(ObjectClassIter) : ObjectClassIter[k] = oc

InRange == 0..(Len(items) - 1)

\* C1: the entries of a catalogue are grouped by class in the declared order
\* and, within a class, ascend in the byte-wise order of their path strings.
C1_GroupedByClassSortedByPath ==
    \A i \in 1..Len(items) : \A j \in (i + 1)..Len(items) :
        /\ ClassRank(items[i][1]) <= ClassRank(items[j][1])
        /\ items[i][1] = items[j][1]
            => str_le(to_str(items[i][2]), to_str(items[j][2]))

\* a built catalogue in which some class holds two files
C1_Witness ==
    /\ dstatus = "ok"
    /\ \E i \in 1..(Len(items) - 1) :
        items[i][1] = items[i + 1][1] /\ items[i][2] # items[i + 1][2]

\* C5: a catalogue exists only with exactly SAMPLES_PER_DATASET entries; any
\* other total after the last class ends construction in failure.
C5_LenIsSamplesPerDataset ==
    /\ dstatus = "ok" => Len(items) = SAMPLES_PER_DATASET
    /\ (dstatus # "loading" /\ oc_pos = NumClasses /\ Len(items) # SAMPLES_PER_DATASET)
        => (dstatus = "panic" /\ dcause = "count")

\* construction failed on a total one short of the expected count
C5_Witness ==
    /\ dstatus = "panic"
    /\ oc_pos = NumClasses
    /\ Len(items) = SAMPLES_PER_DATASET - 1

\* <split root>/<class>/<file name> for entry i
ExpectedPath(index) ==
    to_str(ds_path) \o <<47>> \o to_string(items[index + 1][1])
        \o <<47>> \o file_name(items[index + 1][2])

\* C6: index_to_path(i) is the split root, the class label of entry i and the
\* file name of entry i, each once.
C6_PathIsRootClassFile ==
    dstatus = "ok" =>
        \A i \in InRange : to_str(index_to_path(i)) = ExpectedPath(i)

\* C7: class number k occupies the indices [k*SAMPLES_PER_CLASS,
\* (k+1)*SAMPLES_PER_CLASS) of every constructed catalogue.
C7_ClassIsIndexDivSamplesPerClass ==
    dstatus = "ok" =>
        \A i \in InRange :
            index_to_class(i) = ObjectClassIter[(i \div SAMPLES_PER_CLASS) + 1]

\* C8: indices_to_paths and indices_to_classes answer with one element per
\* index given, the k-th being index_to_path / index_to_class of the k-th
\* index, so that equal indices get equal answers.
C8_BatchQueriesAreElementwise ==
    q_held =>
        /\ Len(q_paths) = Len(q_indices)
        /\ Len(q_classes) = Len(q_indices)
        /\ \A k \in 1..Len(q_indices) :
            /\ q_paths[k] = index_to_path(q_indices[k])
            /\ q_classes[k] = index_to_class(q_indices[k])

\* the answer to a query [i, j, i] with distinct paths for i and j
C8_Witness ==
    /\ q_held
    /\ Len(q_indices) = 3
    /\ q_indices[1] = q_indices[3]
    /\ q_indices[1] # q_indices[2]
    /\ q_paths[1] = q_paths[3]
    /\ q_paths[1] # q_paths[2]

(***************************************************************************)
(* images.rs: load_rgbimage, RgbImageBatch, load_batch.                    *)
(***************************************************************************)
\* a file image::open cannot decode
Undecodable == [color |-> "none", width |-> 0, height |-> 0]

\* the image files a path may lead to: RGB and grayscale images of a few sizes
ImagePool ==
    { [color |-> c, width |-> w, height |-> h] :
        c \in {"rgb8", "l8"}, w \in {1, 2}, h \in {1, 2} }
    \cup { Undecodable }

\* the samples stored in an image file at column x, row y
source_pixel(file, x, y) ==
    LET at == y * file.width + x
    IN  IF file.color = "rgb8"
        THEN <<10 * at + 1, 10 * at + 2, 10 * at + 3>>
        ELSE <<200 + at>>

\* DynamicImage::to_rgb8 on one pixel: gray is repeated in the three channels
to_rgb(px) == IF Len(px) = 1 THEN <<px[1], px[1], px[1]>> ELSE px

\* images.rs:14-32: load_rgbimage on a decodable file; an RgbImage is its
\* dimensions and its pixels, rows first
load_rgbimage(file) ==
    [ width |-> file.width,
      height |-> file.height,
      pixels |-> [k \in 1..(file.width * file.height) |->
                    to_rgb(source_pixel(file, (k - 1) % file.width,
                                              (k - 1) \div file.width))] ]

\* RgbImage::dimensions: (width, height)
dimensions(img) == <<img.width, img.height>>

\* images.rs:71-80, with the buffer it appends to
RECURSIVE push_rgb_pixels_TwoChannels(_, _)
push_rgb_pixels_TwoChannels(buf, pixels) ==
    IF pixels = <<>> THEN buf
    ELSE push_rgb_pixels_TwoChannels(
            buf \o <<Head(pixels)[1], Head(pixels)[2]>>, Tail(pixels))

RECURSIVE push_rgb_pixels(_, _)
push_rgb_pixels(buf, pixels) ==
    IF pixels = <<>> THEN buf
    ELSE push_rgb_pixels(
            buf \o <<Head(pixels)[1], Head(pixels)[2], Head(pixels)[3]>>,
            Tail(pixels))

\* images.rs:139-143: assert_eq!(img.dimensions(), (width, height))
dims_assert_WidthOnly(img, width, height) == img.width = width

dims_assert(img, width, height) == dimensions(img) = <<width, height>>

\* images.rs:129-130: the shape of the batch, from the first image
batch_shape(batch_size, img) ==
    <<batch_size, dimensions(img)[2], dimensions(img)[1], 3>>

BatchFailed(status, cause) ==
    /\ bstatus' = status
    /\ bcause' = cause
    /\ shape' = <<>>
    /\ data' = <<>>
    /\ UNCHANGED bi

\* images.rs:124-133: the first path is loaded, the batch is made from its
\* dimensions and takes its pixels
LoadFirst ==
    /\ bstatus = "loading"
    /\ bi = 0
    /\ IF paths = <<>>
       THEN BatchFailed("panic", "unwrap")
       ELSE IF paths[1] = Undecodable
       THEN BatchFailed("err", "decode")
       ELSE LET img == load_rgbimage(paths[1])
            IN  /\ shape' = batch_shape(Len(paths), img)
                /\ data' = push_rgb_pixels(<<>>, img.pixels)
                /\ bi' = 1
                /\ UNCHANGED <<bstatus, bcause>>
    /\ UNCHANGED <<paths, parse_vars, index_vars, other_vars>>

\* images.rs:135-145: one iteration of the loop over the other paths
LoadNext ==
    /\ bstatus = "loading"
    /\ bi >= 1
    /\ bi < Len(paths)
    /\ IF paths[bi + 1] = Undecodable
       THEN BatchFailed("err", "decode")
       ELSE LET img == load_rgbimage(paths[bi + 1])
            IN  IF ~dims_assert(img, shape[3], shape[2])
                THEN BatchFailed("panic", "dims")
                ELSE /\ data' = push_rgb_pixels(data, img.pixels)
                     /\ bi' = bi + 1
                     /\ UNCHANGED <<shape, bstatus, bcause>>
    /\ UNCHANGED <<paths, parse_vars, index_vars, other_vars>>

\* images.rs:147: Ok(batch)
LoadDone ==
    /\ bstatus = "loading"
    /\ bi >= 1
    /\ bi = Len(paths)
    /\ bstatus' = "ok"
    /\ UNCHANGED <<paths, bi, shape, data, bcause, parse_vars, index_vars, other_vars>>

InitBatch ==
    /\ paths \in SeqsUpTo(ImagePool, MaxBatch)
    /\ bi = 0
    /\ shape = <<>>
    /\ data = <<>>
    /\ bstatus = "loading"
    /\ bcause = ""
    /\ ParseIdle
    /\ IndexIdle
    /\ OthersIdle

NextBatch == LoadFirst \/ LoadNext \/ LoadDone

SpecBatch == InitBatch /\ [][NextBatch]_vars

(***************************************************************************)
(* The batch as the claims read it.                                        *)
(***************************************************************************)
\* channel c (0, 1, 2) of the pixel at column x, row y of a file, as RGB
ExpectedByte(file, x, y, c) == to_rgb(source_pixel(file, x, y))[c + 1]

\* C3: a returned batch has the shape [n, h, w, 3], h and w being those of the
\* first image, its buffer holds n*h*w*3 bytes, and the bytes of image k are
\* those from k*h*w*3 up to (k+1)*h*w*3, rows first, R, G, B per pixel.
C3_ShapeAndLayout ==
    bstatus = "ok" =>
        LET n == Len(paths)
            h == paths[1].height
            w == paths[1].width
        IN  /\ n >= 1
            /\ shape = <<n, h, w, 3>>
            /\ Len(data) = n * h * w * 3
            /\ \A k \in 0..(n - 1), y \in 0..(h - 1), x \in 0..(w - 1), c \in 0..2 :
                data[k * h * w * 3 + (y * w + x) * 3 + c + 1]
                    = ExpectedByte(paths[k + 1], x, y, c)

\* a returned batch of at least two different images that are not square
C3_Witness ==
    /\ bstatus = "ok"
    /\ Len(paths) >= 2
    /\ paths[1] # paths[2]
    /\ paths[1].width # paths[1].height

\* some image after the first decodes to other dimensions than the first
DimensionMismatch ==
    /\ paths # <<>>
    /\ paths[1] # Undecodable
    /\ \E k \in 2..Len(paths) :
        /\ paths[k] # Undecodable
        /\ <<paths[k].width, paths[k].height>> # <<paths[1].width, paths[1].height>>

\* C4: when an image after the first has other dimensions than the first, no
\* batch is returned: loading never ends well, and once it has ended nothing
\* of the batch is left.
C4_MismatchFailsWholeBatch ==
    DimensionMismatch =>
        /\ bstatus # "ok"
        /\ bstatus # "loading" => (shape = <<>> /\ data = <<>>)

\* loading stopped at a third image that differs from two matching ones
C4_Witness ==
    /\ DimensionMismatch
    /\ bstatus = "panic" /\ bcause = "dims"
    /\ bi = 2

(***************************************************************************)
(* The parent links of a returned mapping.                                 *)
(***************************************************************************)
\* following synset_base_id from id for at most fuel steps ends at a node
\* without a parent
RECURSIVE ReachesRoot(_, _)
ReachesRoot(id, fuel) ==
    IF id \notin DOMAIN synset_map THEN TRUE
    ELSE IF synset_map[id].synset_base_id = None THEN TRUE
    ELSE IF fuel = 0 THEN FALSE
    ELSE ReachesRoot(synset_map[id].synset_base_id[1], fuel - 1)

\* no walk along the parent links comes back to a node it has visited
Acyclic ==
    \A id \in DOMAIN synset_map : ReachesRoot(id, Cardinality(DOMAIN synset_map))

\* some identifier stands on two data lines of the text
RepeatsIdentifier ==
    \E j, k \in 1..Len(input) :
        /\ j < k
        /\ IsDataLine(input[j]) /\ IsDataLine(input[k])
        /\ find(trim(input[j]), 58) >= 0 /\ find(trim(input[k]), 58) >= 0
        /\ LineId(input[j]) = LineId(input[k])

\* C14 as stated: the parent links of every returned mapping are acyclic,
\* also when the text repeats an identifier.
C14_ParentLinksAcyclic ==
    pstatus = "ok" => Acyclic

\* C14 as amended: the parent links of every mapping returned for a text
\* that repeats no identifier are acyclic, and no node is its own parent.
C14_ParentLinksAcyclicWithoutRepeats ==
    (pstatus = "ok" /\ ~RepeatsIdentifier) => Acyclic

\* a returned mapping of two nodes, one the parent of the other, from a text
\* without repeated identifiers
C14_Witness ==
    /\ pstatus = "ok"
    /\ ~RepeatsIdentifier
    /\ Cardinality(DOMAIN synset_map) >= 2
    /\ \E id \in DOMAIN synset_map : synset_map[id].synset_base_id # None

(***************************************************************************)
(* Cinic10Index::new_from_dir (index.rs:374-400).                          *)
(***************************************************************************)
\* index.rs:255-268 on a split directory given as one read_dir outcome per
\* class: [ok |-> FALSE] for a missing or unreadable class directory, else
\* the entries in the order read_dir yields them
RECURSIVE load_items(_, _, _)
load_items(path, dirs, k) ==
    IF k = 0 THEN [status |-> "ok", items |-> <<>>]
    ELSE LET before == load_items(path, dirs, k - 1)
             oc == ObjectClassIter[k]
             oc_path == join(path, path_from(to_string(oc)))
         IN  IF before.status # "ok" THEN before
             ELSE IF ~dirs[k].ok THEN [status |-> "err", items |-> <<>>]
             ELSE [before EXCEPT !.items =
                    before.items \o tag(oc, list_pngs_sorted(oc_path, dirs[k].entries))]

load_index_from_dir(path, dirs) ==
    LET loaded == load_items(path, dirs, NumClasses)
    IN  IF loaded.status # "ok"
        THEN [status |-> "err", cause |-> "dir", value |-> None]
        ELSE IF ~len_assert(Len(loaded.items))
        THEN [status |-> "panic", cause |-> "count", value |-> None]
        ELSE [status |-> "ok", cause |-> "",
              value |-> Some([ds_path |-> path, items |-> loaded.items])]

\* index.rs:104-120: every row is unwrapped, so a malformed row panics
parse_contrib_index(rows) ==
    IF \E k \in 1..Len(rows) : ~rows[k].well_formed
    THEN [status |-> "panic", cause |-> "unwrap", value |-> None]
    ELSE [status |-> "ok", cause |-> "",
          value |-> Some([k \in 1..Len(rows) |-> rows[k].record])]

\* index.rs:395: parse_synset_map as new_from_dir uses it
synset_map_of(lines) ==
    LET parsed == parse_synset_map(lines)
    IN  [status |-> parsed.status, cause |-> parsed.cause,
         value |-> IF parsed.status = "ok" THEN Some(parsed.synset_map) ELSE None]

\* File::open(..)?: a missing file is an Err before the parser runs
open_then(file, parsed) ==
    IF ~file.exists THEN [status |-> "err", cause |-> "open", value |-> None]
    ELSE parsed

\* the root path "/d" and the split directories under it
RootPath == [abs |-> TRUE, comps |-> << <<100>> >>]

\* DataSet, in the order new_from_dir builds the splits, with its Display
DataSetIter == << "train", "test", "valid" >>

DataSetName(ds) ==
    CASE ds = "train" -> <<116, 114, 97, 105, 110>>
      [] ds = "test"  -> <<116, 101, 115, 116>>
      [] ds = "valid" -> <<118, 97, 108, 105, 100>>

\* the files a complete class directory holds
PngNames ==
    << <<97, 46, 112, 110, 103>>,            \* "a.png"
       <<97, 45, 98, 46, 112, 110, 103>>,    \* "a-b.png"
       <<98, 46, 112, 110, 103>> >>          \* "b.png"

FullDir == [ok |-> TRUE, entries |-> SubSeq(PngNames, 1, SAMPLES_PER_CLASS)]
EmptyDir == [ok |-> TRUE, entries |-> <<>>]
MissingDir == [ok |-> FALSE, entries |-> <<>>]

\* the split directories a root may hold: complete, one class short, one
\* class directory missing
SplitDirs ==
    { [k \in 1..NumClasses |-> FullDir],
      [k \in 1..NumClasses |-> IF k = 1 THEN EmptyDir ELSE FullDir],
      [k \in 1..NumClasses |-> IF k = NumClasses THEN MissingDir ELSE FullDir] }

\* the contributor files a root may hold
ContribRow ==
    [ well_formed |-> TRUE,
      record |-> [synset |-> <<110, 49>>, image_num |-> 1,
                  data_set |-> "train", class |-> "Airplane"] ]

ContribFiles ==
    { [exists |-> FALSE, rows |-> <<>>],
      [exists |-> TRUE, rows |-> <<>>],
      [exists |-> TRUE, rows |-> <<ContribRow>>],
      [exists |-> TRUE, rows |-> <<ContribRow, [ContribRow EXCEPT !.well_formed = FALSE]>>] }

\* the hierarchy files a root may hold
SynsetFiles ==
    { [exists |-> FALSE, lines |-> <<>>],
      [exists |-> TRUE,
       lines |-> << <<100, 111, 103>>, <<45, 45, 110, 49, 58, 32, 97, 44, 32, 98>> >>],
      [exists |-> TRUE, lines |-> << <<68, 111, 103>> >>],
      [exists |-> TRUE, lines |-> << <<45, 45, 110, 49, 58, 32, 97, 44, 32, 98>> >>] }

Roots ==
    [ kind : {"missing", "file", "dir"},
      contrib : ContribFiles,
      synset : SynsetFiles,
      train : SplitDirs, test : SplitDirs, valid : SplitDirs ]

\* the steps of new_from_dir, in the order the code takes them
FacadeSteps == << "root", "imagenet_contrib", "synset_map", "train", "test", "valid" >>

\* what a step computes from the root, as [status, cause, value]
RunStep(step, root) ==
    CASE step = "root" ->
            IF root.kind = "dir"
            THEN [status |-> "ok", cause |-> "", value |-> Some(RootPath)]
            ELSE [status |-> "panic", cause |-> root.kind, value |-> None]
      [] step = "imagenet_contrib" ->
            open_then(root.contrib, parse_contrib_index(root.contrib.rows))
      [] step = "synset_map" ->
            open_then(root.synset, synset_map_of(root.synset.lines))
      [] step = "train" ->
            load_index_from_dir(join(RootPath, path_from(DataSetName("train"))), root.train)
      [] step = "test" ->
            load_index_from_dir(join(RootPath, path_from(DataSetName("test"))), root.test)
      [] step = "valid" ->
            load_index_from_dir(join(RootPath, path_from(DataSetName("valid"))), root.valid)

StepNumber(step) == CHOOSE k \in 1..Len(FacadeSteps) : FacadeSteps[k] = step

\* what new_from_dir does with the outcome of a step: `?` and the panics end
\* construction, a value becomes the part
AfterStep_KeepGoing(step, out) ==
    /\ cinic' = [cinic EXCEPT ![step] = out.value]
    /\ f_pc' = IF StepNumber(step) < Len(FacadeSteps)
               THEN FacadeSteps[StepNumber(step) + 1] ELSE "return"
    /\ UNCHANGED <<f_status, f_cause>>

AfterStep(step, out) ==
    IF out.status = "ok"
    THEN /\ cinic' = [cinic EXCEPT ![step] = out.value]
         /\ f_pc' = IF StepNumber(step) < Len(FacadeSteps)
                    THEN FacadeSteps[StepNumber(step) + 1] ELSE "return"
         /\ UNCHANGED <<f_status, f_cause>>
    ELSE /\ f_status' = out.status
         /\ f_cause' = out.cause
         /\ UNCHANGED <<cinic, f_pc>>

FacadeStep(step) ==
    /\ f_status = "running"
    /\ f_pc = step
    /\ AfterStep(step, RunStep(step, fs_root))
    /\ UNCHANGED <<fs_root, f_result, path_vars, parse_vars, index_vars, batch_vars>>

\* index.rs:380-388
CheckRoot == FacadeStep("root")
\* index.rs:390
BuildContrib == FacadeStep("imagenet_contrib")
\* index.rs:395
BuildSynsetMap == FacadeStep("synset_map")
\* index.rs:396
BuildTrain == FacadeStep("train")
\* index.rs:397
BuildTest == FacadeStep("test")
\* index.rs:398
BuildValid == FacadeStep("valid")

\* index.rs:392-399: Ok(Cinic10Index { .. })
ReturnIndex ==
    /\ f_status = "running"
    /\ f_pc = "return"
    /\ f_status' = "ok"
    /\ f_result' = Some(cinic)
    /\ UNCHANGED <<fs_root, f_pc, f_cause, cinic, path_vars,
                   parse_vars, index_vars, batch_vars>>

InitFacade ==
    /\ fs_root \in Roots
    /\ f_pc = "root"
    /\ f_status = "running"
    /\ f_cause = ""
    /\ cinic = [step \in { FacadeSteps[k] : k \in 1..Len(FacadeSteps) } |-> None]
    /\ f_result = None
    /\ PathIdle
    /\ ParseIdle /\ IndexIdle /\ BatchIdle

NextFacade ==
    \/ CheckRoot \/ BuildContrib \/ BuildSynsetMap
    \/ BuildTrain \/ BuildTest \/ BuildValid
    \/ ReturnIndex

SpecFacade == InitFacade /\ [][NextFacade]_vars

(***************************************************************************)
(* The facade as the claim reads it.                                       *)
(***************************************************************************)
\* the steps that fail on this root
FailingSteps ==
    { k \in 1..Len(FacadeSteps) : RunStep(FacadeSteps[k], fs_root).status # "ok" }

\* every part of a facade is populated
Populated(index) == \A k \in 1..Len(FacadeSteps) : index[FacadeSteps[k]] # None

\* C11: new_from_dir takes its steps in the order root check, contributor
\* records, taxonomy, train, test, valid; it ends in failure at the first step
\* that fails, and the caller obtains a Cinic10Index only when none fails, with
\* every part populated.
C11_AllOrNothing ==
    /\ f_result # None =>
        (f_status = "ok" /\ FailingSteps = {} /\ Populated(f_result[1]))
    /\ f_status \in {"err", "panic"} =>
        /\ FailingSteps # {}
        /\ f_pc = FacadeSteps[CHOOSE k \in FailingSteps : \A j \in FailingSteps : k <= j]
        /\ f_result = None
    /\ f_status = "running" /\ f_pc # "return" =>
        /\ \A k \in FailingSteps : StepNumber(f_pc) <= k
        /\ \A k \in 1..Len(FacadeSteps) :
            (cinic[FacadeSteps[k]] # None) = (k < StepNumber(f_pc))
    /\ f_status = "ok" => f_result # None

\* construction ended at the test split after four parts were built, and the
\* caller obtained nothing
C11_Witness ==
    /\ f_status \in {"err", "panic"}
    /\ f_pc = "test"
    /\ cinic["train"] # None /\ cinic["synset_map"] # None
    /\ RunStep("valid", fs_root).status # "ok"
    /\ f_result = None

(***************************************************************************)
(* The operations of the core, each run on its own.                        *)
(***************************************************************************)
InitCore == InitParse \/ InitIndex \/ InitBatch

NextCore == NextParse \/ NextIndex \/ NextBatch

SpecCore == InitCore /\ [][NextCore]_vars

\* parsing stopped at a data line that no valid class header precedes
StoppedAtOrphanLine ==
    /\ pstatus \in {"err", "panic"}
    /\ IsDataLine(input[pos])
    /\ \A j \in 1..(pos - 1) : ~IsValidHeader(input[j])

\* parsing stopped at a header line that names none of the classes
StoppedAtUnknownHeader ==
    /\ pstatus \in {"err", "panic"}
    /\ input[pos] # IoError
    /\ ~IsDataLine(input[pos])
    /\ ~IsValidHeader(input[pos])

\* construction stopped at a class directory that could not be read
StoppedAtDirectory ==
    /\ dstatus \in {"err", "panic"}
    /\ oc_pos < NumClasses

\* construction stopped after the last class on a wrong total
StoppedAtCount ==
    /\ dstatus \in {"err", "panic"}
    /\ oc_pos = NumClasses
    /\ Len(items) # SAMPLES_PER_DATASET

\* loading stopped at a file that cannot be decoded
StoppedAtUndecodable ==
    /\ bstatus \in {"err", "panic"}
    /\ paths # <<>>
    /\ paths[bi + 1] = Undecodable

\* loading stopped at an image whose dimensions differ from the first
StoppedAtDimensions ==
    /\ bstatus \in {"err", "panic"}
    /\ bi >= 1
    /\ paths[bi + 1] # Undecodable
    /\ <<paths[bi + 1].width, paths[bi + 1].height>> # <<paths[1].width, paths[1].height>>

Threads == 1..NumThreads

\* the paths given to set_default_data_path: "p1", "p2"
PathPool == { <<112, 49>>, <<112, 50>> }

\* what env::var(CINIC10_PATH) may give: unset, or "pe"
EnvValues == { None, Some(<<112, 101>>) }

\* lib.rs:20: if path.is_some() { return path; }
returns_static_Always(path) == TRUE

returns_static(path) == path # None

\* lib.rs:41-43: *STATIC_DEFAULT_PATH.write().unwrap() = path
SetDefault(t) ==
    /\ t_pc[t] = "idle"
    /\ \E path \in { None } \cup { Some(p) : p \in PathPool } :
        /\ static_path' = path
        /\ last_set' = path
        /\ issued' = issued \cup { path }
    /\ UNCHANGED <<env_path, t_pc, t_result, t_seen, facade_vars,
                   parse_vars, index_vars, batch_vars>>

\* lib.rs:19-22: the static is cloned under the read lock, and returned when
\* it is Some
GetRead(t) ==
    /\ t_pc[t] = "idle"
    /\ t_seen' = [t_seen EXCEPT ![t] = last_set]
    /\ IF returns_static(static_path)
       THEN /\ t_result' = [t_result EXCEPT ![t] = Some(static_path)]
            /\ UNCHANGED t_pc
       ELSE /\ t_pc' = [t_pc EXCEPT ![t] = "env"]
            /\ t_result' = [t_result EXCEPT ![t] = <<>>]
    /\ UNCHANGED <<static_path, env_path, last_set, issued, facade_vars,
                   parse_vars, index_vars, batch_vars>>

\* lib.rs:24-27: the environment variable, or None
GetEnv(t) ==
    /\ t_pc[t] = "env"
    /\ t_pc' = [t_pc EXCEPT ![t] = "idle"]
    /\ t_result' = [t_result EXCEPT ![t] = Some(env_path)]
    /\ UNCHANGED <<static_path, env_path, t_seen, last_set, issued, facade_vars,
                   parse_vars, index_vars, batch_vars>>

\* lib.rs:10: RwLock::new(None), and the environment the process starts with
InitPath ==
    /\ static_path = None
    /\ env_path \in EnvValues
    /\ t_pc = [t \in Threads |-> "idle"]
    /\ t_result = [t \in Threads |-> <<>>]
    /\ t_seen = [t \in Threads |-> None]
    /\ last_set = None
    /\ issued = {}
    /\ FacadeIdle
    /\ ParseIdle /\ IndexIdle /\ BatchIdle

NextPath == \E t \in Threads : SetDefault(t) \/ GetRead(t) \/ GetEnv(t)

SpecPath == InitPath /\ [][NextPath]_vars

\* what a get is to return when the last completed set had the argument
\* path (None also when there was no set)
Resolve(path) == IF path # None THEN path ELSE env_path

\* C13: under every interleaving, a get_default_data_path returns the argument
\* of the set_default_data_path that had last completed when it read the
\* static, when that argument was Some(path), and otherwise (never set, or last
\* set to None) the value of the environment variable, or None when it is
\* unset; what it returns is an argument of some set or the environment value.
C13_GetReturnsLastSetOrEnv ==
    \A t \in DOMAIN t_result :
        t_result[t] # <<>> =>
            /\ t_result[t][1] = Resolve(t_seen[t])
            /\ t_result[t][1] \in issued \cup { env_path }

\* one thread's get returned the environment value, a path was set since, and
\* another thread's get returned that path
C13_Witness ==
    /\ env_path # None
    /\ \E t, u \in DOMAIN t_result :
        /\ t # u
        /\ t_result[t] = Some(env_path)
        /\ t_result[u] # <<>>
        /\ t_result[u][1] \in { Some(p) : p \in PathPool }
        /\ last_set = t_result[u][1]

====
